---- MODULE Spec2Model ----
(***************************************************************************)
(* Option-chain poller (src/option_chain_poller.py): the batched quote     *)
(* fetcher with retry/backoff, the strike-window selector and the          *)
(* per-poll key rotation, as state machines.                               *)
(*                                                                         *)
(* Durations are in milliseconds.  Instrument identifiers are positive     *)
(* integers; NoKey is a missing (falsy) identifier.                        *)
(***************************************************************************)
EXTENDS Integers, Sequences, FiniteSets, TLC

\* ------------------------------------------------------------------ bounds
MaxKeys == 5            \* longest identifier list handed to the fetcher
MaxBatchSize == 2       \* largest configured BATCH_SIZE
MaxRetriesBound == 1    \* largest configured MAX_RETRIES
MaxNegBatch == 1        \* most negative BATCH_SIZE of a misconfigured run

\* --------------------------------------------------------- program constants
BASE_DELAY == 2000      \* BASE_DELAY, default 2.0 s
POLITE_PAUSE == 150     \* time.sleep(0.15)

Min(a, b) == IF a <= b THEN a ELSE b
Max(a, b) == IF a >= b THEN a ELSE b

\* A missing identifier (None or ""): falsy in the code's "if key" tests.
NoKey == 0

VARIABLES
    \* ---- fetch_quotes_for_instrument_keys
    BATCH_SIZE,        \* configuration read from the environment
    MAX_RETRIES,       \* configuration read from the environment
    instrument_keys,   \* the argument of the call
    pc,                \* position of the call
    batchNo,           \* 1-based number of the batch of the for loop, 0 before it
    attempt,           \* the local counter of the while loop
    out,               \* keys of the map being populated
    wait,              \* duration of the sleep in progress (backoff or pause)
    cause,             \* the response that led to the backoff in progress
    nreq,              \* number of outbound requests issued by the call
    batchReqs,         \* number of outbound requests issued for the current batch
    sent,              \* the batches in the order their first request was issued
    abandoned,         \* numbers of the batches that ended in the while-else branch
    only429,           \* every attempt of the current batch so far was a 429
    merged,            \* keys merged from successful responses
    pauses,            \* number of politeness pauses slept so far
    \* ---- select_window_keys
    option_rows,       \* argument: the contract rows
    atm_val,           \* argument: the ATM price, or NoAtm
    window,            \* argument: the window (STRIKE_WINDOW)
    spc,               \* "idle", "ready" (called) or "done" (returned)
    strikes_sorted,    \* local: the ascending distinct strikes
    center_idx,        \* local: the 0-based center index
    chosen,            \* the list returned
    \* ---- build_option_chain_from_instruments and the rendering of its legs
    instrument_rows,   \* argument: the contract rows
    quotes,            \* argument quotes_map: identifier -> quote payload
    bpc,               \* "idle", "ready" (called), "built" or "rendered"
    strikes_list,      \* the list of entries returned
    texts,             \* short_text_for_side of the legs of each entry
    \* ---- poll_once_and_send, called from main's loop
    MAX_KEYS_PER_POLL, \* configuration read from the environment
    POLL_INTERVAL,     \* configuration read from the environment
    STRIKE_WINDOW,     \* configuration read from the environment
    nifty_rows,        \* resolve_option_instruments_for(instruments, "nifty", ...)
    tcs_rows,          \* resolve_option_instruments_for(instruments, "tcs", ...)
    nifty_under_key,   \* find_underlying_key(instruments, "nifty"), or NoKey
    tcs_under_key,     \* find_underlying_key(instruments, "tcs"), or NoKey
    now,               \* time.time(), in seconds
    ppc,               \* position of the cycle
    cand,              \* local: the deduplicated candidate keys
    keys_this_poll,    \* local: the slice of this cycle
    quotes_map,        \* local: keys of the map the fetcher returned
    nifty_atm,         \* local: the ATM estimate, or NoAtm
    tcs_atm,           \* local: the ATM estimate, or NoAtm
    nifty_keys,        \* local: refined keys that were fetched
    tcs_keys,          \* local: refined keys that were fetched
    nifty_strikes,     \* local: the chain assembled for the summary
    tcs_strikes,       \* local: the chain assembled for the summary
    fetchCalls,        \* fetcher invocations of this cycle
    fetchArgs,         \* the identifier list handed to the fetcher in this cycle
    cycles,            \* completed cycles
    slices,            \* the identifier list of each fetcher invocation so far
    spaced             \* every cycle so far began POLL_INTERVAL after the one before

fvars == <<BATCH_SIZE, MAX_RETRIES, instrument_keys, pc, batchNo, attempt, out,
           wait, cause, nreq, batchReqs, sent, abandoned, only429, merged, pauses>>

svars == <<option_rows, atm_val, window, spc, strikes_sorted, center_idx, chosen>>

bvars == <<instrument_rows, quotes, bpc, strikes_list, texts>>

cfgvars == <<MAX_KEYS_PER_POLL, POLL_INTERVAL, STRIKE_WINDOW, nifty_rows, tcs_rows,
             nifty_under_key, tcs_under_key>>
cycvars == <<cand, keys_this_poll, quotes_map, nifty_atm, tcs_atm, nifty_keys,
             tcs_keys, nifty_strikes, tcs_strikes, fetchCalls, fetchArgs>>
pvars == <<cfgvars, now, ppc, cycvars, cycles, slices, spaced>>

vars == <<fvars, svars, bvars, pvars>>

\* ------------------------------------------------------------- chunk_list
\* A chunk count that rounds down: the short last batch is lost.
NumChunksFloor(len, n) == IF n > 0 THEN len \div n ELSE 0

\* range(0, len, n) for n > 0, and for n < 0 (empty: start < stop, step down).
NumChunks(len, n) == IF n > 0 THEN (len + n - 1) \div n ELSE 0

\* chunk_list(lst, n): the slices lst[i:i+n] for i in range(0, len(lst), n).
chunk_list(lst, n) ==
    [b \in 1..NumChunks(Len(lst), n) |->
        SubSeq(lst, (b - 1) * n + 1, Min(b * n, Len(lst)))]

Batches == chunk_list(instrument_keys, BATCH_SIZE)
batch == Batches[batchNo]

\* --------------------------------------------------------------- responses
\* Retry-After header of a 429: absent, or its text.
RetryAfterHeaders == {"absent", "0", "3", "soon", "-1", "nan"}

\* float(ra): a number of milliseconds, a NaN, or a ValueError.
ParseFloat(ra) ==
    CASE ra = "0"   -> [cls |-> "num", ms |-> 0]
      [] ra = "3"   -> [cls |-> "num", ms |-> 3000]
      [] ra = "-1"  -> [cls |-> "num", ms |-> -1000]
      [] ra = "nan" -> [cls |-> "nan", ms |-> 0]
      [] OTHER      -> [cls |-> "err", ms |-> 0]

\* BASE_DELAY * (2 ** (attempt-1))
Backoff(a) == BASE_DELAY * (2 ^ (a - 1))

\* The wait computed on a 429 (lines 182-186): the parsed header, else backoff.
RateLimitWait(ra, a) ==
    IF ra = "absent" THEN [cls |-> "num", ms |-> Backoff(a)]
    ELSE IF ParseFloat(ra).cls = "err" THEN [cls |-> "num", ms |-> Backoff(a)]
    ELSE ParseFloat(ra)

\* time.sleep(w) raises ValueError on a negative or NaN duration.
SleepRaises(w) == w.cls = "nan" \/ w.ms < 0

\* One item of a response list, for the requested key k:
\*   "ik"      a quote object carrying instrument_key (or instrumentKey)
\*   "token"   a quote object carrying only instrument_token
\*   "nokey"   a quote object with no identifier field
\*   "nondict" an item that is not an object (a string, a number, null)
ItemKinds == {"ik", "token", "nokey", "nondict"}

\* Bodies of a 2xx response to a request for batch b.
\*   "badjson"  r.json() fails
\*   "list"     data is a list with one item per requested key
\*   "dict"     data is a single object (for the first requested key)
\*   "scalar"   data is neither a list nor an object
Bodies(b) ==
    {[shape |-> "badjson", items |-> <<>>], [shape |-> "scalar", items |-> <<>>]}
    \cup {[shape |-> "list", items |-> it] : it \in [1..Len(b) -> ItemKinds]}
    \cup {[shape |-> "dict", items |-> <<k>>] : k \in {"ik", "token", "nokey"}}

NoBody == [shape |-> "none", items |-> <<>>]

\* What one attempt can meet:
\*   "r429"       status 429
\*   "neterr"     requests.get raises (connection error, timeout)
\*   "httperr"    another non-2xx status: raise_for_status raises HTTPError
\*   "ok"         a 2xx response with a body
\* jsonIsReqExc: whether the installed requests raises its JSONDecodeError as a
\* RequestException (2.27 and later) or as a plain ValueError (earlier).
Responses(b) ==
    {[kind |-> "r429", ra |-> h, body |-> NoBody, jsonIsReqExc |-> TRUE] :
        h \in RetryAfterHeaders}
    \cup {[kind |-> k, ra |-> "absent", body |-> NoBody, jsonIsReqExc |-> TRUE] :
        k \in {"neterr", "httperr"}}
    \cup {[kind |-> "ok", ra |-> "absent", body |-> bd, jsonIsReqExc |-> j] :
        bd \in Bodies(b), j \in BOOLEAN}

NoCause == [kind |-> "none", ra |-> "absent"]

\* Index of the first item of a list that is not an object (item.get raises
\* AttributeError there), 0 when every item is an object.
FirstNonDict(items) ==
    IF \E i \in 1..Len(items) : items[i] = "nondict"
    THEN CHOOSE i \in 1..Len(items) :
            /\ items[i] = "nondict"
            /\ \A j \in 1..(i - 1) : items[j] # "nondict"
    ELSE 0

\* Keys a parsed body adds to out (lines 192-201), up to the item that raises.
MergedKeys(b, body) ==
    CASE body.shape = "list" ->
            LET stop == IF FirstNonDict(body.items) = 0 THEN Len(b)
                        ELSE FirstNonDict(body.items) - 1
            IN  {b[i] : i \in {j \in 1..stop : body.items[j] \in {"ik", "token"}}}
      [] body.shape = "dict" ->
            IF body.items[1] = "ik" THEN {b[1]} ELSE {}
      [] OTHER -> {}

\* Whether handling a 2xx body raises an exception the except clause misses.
BodyRaises(resp) ==
    \/ resp.body.shape = "badjson" /\ ~resp.jsonIsReqExc
    \/ resp.body.shape = "list" /\ FirstNonDict(resp.body.items) # 0

\* Whether handling a 2xx body raises a RequestException (caught at line 205).
BodyTransient(resp) == resp.body.shape = "badjson" /\ resp.jsonIsReqExc

\* The selector takes no part in a fetch.
SelectorIdle ==
    /\ option_rows = <<>>
    /\ atm_val = 0
    /\ window = 0
    /\ spc = "idle"
    /\ strikes_sorted = <<>>
    /\ center_idx = 0
    /\ chosen = <<>>

\* The chain builder takes no part in a fetch, a selection or (as a separate
\* call) a cycle.
BuilderIdle ==
    /\ instrument_rows = <<>>
    /\ quotes = <<>>
    /\ bpc = "idle"
    /\ strikes_list = <<>>
    /\ texts = <<>>

\* The locals of a cycle before it computes them.
CycleBlank ==
    /\ cand = <<>>
    /\ keys_this_poll = <<>>
    /\ quotes_map = {}
    /\ nifty_atm = 0
    /\ tcs_atm = 0
    /\ nifty_keys = <<>>
    /\ tcs_keys = <<>>
    /\ nifty_strikes = <<>>
    /\ tcs_strikes = <<>>
    /\ fetchCalls = 0
    /\ fetchArgs = <<>>

\* The poller takes no part in a single fetch or selection.
PollerIdle ==
    /\ MAX_KEYS_PER_POLL = 1
    /\ POLL_INTERVAL = 1
    /\ STRIKE_WINDOW = 0
    /\ nifty_rows = <<>>
    /\ tcs_rows = <<>>
    /\ nifty_under_key = NoKey
    /\ tcs_under_key = NoKey
    /\ now = 0
    /\ ppc = "idle"
    /\ CycleBlank
    /\ cycles = 0
    /\ slices = <<>>
    /\ spaced = TRUE

\* ------------------------------------------------------------------ fetcher
\* The identifier lists the poller passes: cand[start:end], deduplicated.
KeyLists == {[i \in 1..n |-> i] : n \in 0..MaxKeys}

\* The state at a call of the fetcher, BATCH_SIZE being one of sizes.
FetchCalled(sizes) ==
    /\ BATCH_SIZE \in sizes
    /\ MAX_RETRIES \in 0..MaxRetriesBound
    /\ instrument_keys \in KeyLists
    /\ pc = "call"
    /\ batchNo = 0
    /\ attempt = 0
    /\ out = {}
    /\ wait = 0
    /\ cause = NoCause
    /\ nreq = 0
    /\ batchReqs = 0
    /\ sent = <<>>
    /\ abandoned = {}
    /\ only429 = TRUE
    /\ merged = {}
    /\ pauses = 0
    /\ SelectorIdle
    /\ BuilderIdle
    /\ PollerIdle

Init == FetchCalled(1..MaxBatchSize)

\* Lines 167-169: out = {}; an empty list returns at once.
Enter ==
    /\ pc = "call"
    /\ pc' = IF Len(instrument_keys) = 0 THEN "returned" ELSE "for"
    /\ UNCHANGED <<BATCH_SIZE, MAX_RETRIES, instrument_keys, batchNo, attempt, out,
                   wait, cause, nreq, batchReqs, sent, abandoned, only429, merged, pauses>>
    /\ UNCHANGED <<svars, bvars, pvars>>

\* Line 172-175: the for loop takes the next batch, or ends and line 211 returns.
\* With BATCH_SIZE = 0 the generator's range(0, len, 0) raises ValueError when
\* the loop asks for the first batch.
NextBatch ==
    /\ pc = "for"
    /\ IF BATCH_SIZE = 0
       THEN /\ pc' = "raised"
            /\ cause' = [kind |-> "rangestep", ra |-> "absent"]
            /\ UNCHANGED <<batchNo, attempt, only429, batchReqs>>
       ELSE IF batchNo < Len(Batches)
       THEN /\ batchNo' = batchNo + 1
            /\ attempt' = 0
            /\ only429' = TRUE
            /\ batchReqs' = 0
            /\ pc' = "while"
            /\ UNCHANGED cause
       ELSE /\ pc' = "returned"
            /\ UNCHANGED <<batchNo, attempt, only429, batchReqs, cause>>
    /\ UNCHANGED <<BATCH_SIZE, MAX_RETRIES, instrument_keys, out, wait,
                   nreq, sent, abandoned, merged, pauses>>
    /\ UNCHANGED <<svars, bvars, pvars>>

\* Lines 176-208: one pass of the while body, up to the sleep it ends in.
Attempt(resp) ==
    /\ pc = "while"
    /\ attempt <= MAX_RETRIES
    /\ attempt' = attempt + 1
    /\ nreq' = nreq + 1
    /\ batchReqs' = batchReqs + 1
    /\ sent' = IF attempt = 0 THEN Append(sent, batch) ELSE sent
    /\ only429' = (only429 /\ resp.kind = "r429")
    /\ CASE resp.kind = "r429" ->
              LET w == RateLimitWait(resp.ra, attempt + 1)
              IN  /\ pc' = IF SleepRaises(w) THEN "raised" ELSE "backoff"
                  /\ wait' = IF SleepRaises(w) THEN 0 ELSE w.ms
                  /\ cause' = [kind |-> "r429", ra |-> resp.ra]
                  /\ UNCHANGED <<out, merged, pauses>>
         [] resp.kind \in {"neterr", "httperr"} \/
            (resp.kind = "ok" /\ BodyTransient(resp)) ->
              /\ pc' = "backoff"
              /\ wait' = Backoff(attempt + 1)
              /\ cause' = [kind |-> "transient", ra |-> "absent"]
              /\ UNCHANGED <<out, merged, pauses>>
         [] resp.kind = "ok" /\ ~BodyTransient(resp) ->
              /\ out' = out \cup MergedKeys(batch, resp.body)
              /\ cause' = IF BodyRaises(resp)
                          THEN [kind |-> resp.body.shape, ra |-> "absent"]
                          ELSE NoCause
              /\ IF BodyRaises(resp)
                 THEN /\ pc' = "raised"
                      /\ wait' = 0
                      /\ UNCHANGED <<merged, pauses>>
                 ELSE /\ pc' = "pause"
                      /\ wait' = POLITE_PAUSE
                      /\ merged' = merged \cup MergedKeys(batch, resp.body)
                      /\ pauses' = pauses + 1
    /\ UNCHANGED <<BATCH_SIZE, MAX_RETRIES, instrument_keys, batchNo, abandoned>>
    /\ UNCHANGED <<svars, bvars, pvars>>

\* Lines 188-189 and 208: the backoff sleep ends; back to the while condition.
Wake ==
    /\ pc = "backoff"
    /\ pc' = "while"
    /\ wait' = 0
    /\ cause' = NoCause
    /\ UNCHANGED <<BATCH_SIZE, MAX_RETRIES, instrument_keys, batchNo, attempt, out,
                   nreq, batchReqs, sent, abandoned, only429, merged, pauses>>
    /\ UNCHANGED <<svars, bvars, pvars>>

\* Lines 203-204: the politeness pause ends; break out of the while loop.
PauseDone ==
    /\ pc = "pause"
    /\ pc' = "for"
    /\ wait' = 0
    /\ UNCHANGED <<BATCH_SIZE, MAX_RETRIES, instrument_keys, batchNo, attempt, out,
                   cause, nreq, batchReqs, sent, abandoned, only429, merged, pauses>>
    /\ UNCHANGED <<svars, bvars, pvars>>

\* An else branch that sleeps the politeness pause too.
ExhaustWithPause ==
    /\ pc = "while"
    /\ attempt > MAX_RETRIES
    /\ abandoned' = abandoned \cup {batchNo}
    /\ pauses' = pauses + 1
    /\ pc' = "for"
    /\ UNCHANGED <<BATCH_SIZE, MAX_RETRIES, instrument_keys, batchNo, attempt, out,
                   wait, cause, nreq, batchReqs, sent, only429, merged>>
    /\ UNCHANGED <<svars, bvars, pvars>>

\* Lines 209-210: the while condition fails; the else branch logs and moves on.
Exhaust ==
    /\ pc = "while"
    /\ attempt > MAX_RETRIES
    /\ abandoned' = abandoned \cup {batchNo}
    /\ pc' = "for"
    /\ UNCHANGED <<BATCH_SIZE, MAX_RETRIES, instrument_keys, batchNo, attempt, out,
                   wait, cause, nreq, batchReqs, sent, only429, merged, pauses>>
    /\ UNCHANGED <<svars, bvars, pvars>>

TryBatch == \E resp \in Responses(batch) : Attempt(resp)

Next ==
    \/ Enter
    \/ NextBatch
    \/ (pc = "while" /\ attempt <= MAX_RETRIES /\ TryBatch)
    \/ Wake
    \/ PauseDone
    \/ Exhaust

Spec == Init /\ [][Next]_vars

\* The call as it runs: a sequential program takes its next step as long as it
\* has one (every request has a 30 s timeout, line 180, and every sleep is
\* finite).
FairSpec == Init /\ [][Next]_vars /\ WF_vars(Next)

\* The fetcher under any integer BATCH_SIZE the environment can set, zero and
\* negative included.
AnyBatchInit == FetchCalled((0 - MaxNegBatch)..MaxBatchSize)
AnyBatchSpec == AnyBatchInit /\ [][Next]_vars

\* ------------------------------------------------------- fetcher properties
RECURSIVE Concat(_)
Concat(ss) == IF Len(ss) = 0 THEN <<>> ELSE Head(ss) \o Concat(Tail(ss))

KeysOf(b) == {b[i] : i \in 1..Len(b)}
Ended == pc \in {"returned", "raised"}
\* The current batch is over: the loop moved on, or the call ended in it.
BatchOver == batchNo >= 1 /\ batchReqs >= 1 /\ pc \in {"for", "returned", "raised"}
\* Batch b had at least one request.
Attempted(b) == b <= Len(sent)
\* Every request of the call was answered by a response that was merged.
NoFailures == pauses = nreq

\* C1: a batch whose every attempt was answered 429 gets exactly MAX_RETRIES+1
\* requests, is then abandoned without the call raising, and none of the
\* identifiers of an abandoned batch is a key of the returned map.
C1_RateLimitedBatchAbandoned ==
    /\ (BatchOver /\ only429) =>
          /\ pc # "raised"
          /\ batchReqs = MAX_RETRIES + 1
          /\ batchNo \in abandoned
    /\ pc = "returned" =>
          \A b \in abandoned : KeysOf(Batches[b]) \cap out = {}

\* C2: once a batch has ended Exhausted, the call still attempts every later
\* batch and returns a map holding every quote merged from successful batches.
C2_ExhaustedBatchDoesNotAbort ==
    (Ended /\ abandoned # {}) =>
        /\ \A b \in 1..Len(Batches) : Attempted(b)
        /\ pc = "returned"
        /\ merged \subseteq out

\* C3: whatever the attempts meet, the call never raises to its caller.
C3_NeverRaises == pc # "raised"

\* C6: the batches are consecutive slices of BATCH_SIZE identifiers in input
\* order (none empty, only the last one shorter, concatenation = input); they
\* are requested in that order, one request per try; without failures the call
\* issues one request per batch: 5 identifiers by 2 give requests of 2, 2, 1.
C6_Batching ==
    /\ Concat(Batches) = instrument_keys
    /\ \A b \in 1..Len(Batches) :
          /\ Len(Batches[b]) >= 1
          /\ Len(Batches[b]) <= BATCH_SIZE
          /\ b < Len(Batches) => Len(Batches[b]) = BATCH_SIZE
    /\ sent = SubSeq(Batches, 1, Len(sent))
    /\ batchReqs = attempt
    /\ Len(sent) = (IF batchReqs >= 1 THEN batchNo ELSE Max(batchNo - 1, 0))
    /\ (pc = "returned" /\ NoFailures) =>
          /\ sent = Batches
          /\ nreq = Len(Batches)
          /\ (Len(instrument_keys) = 5 /\ BATCH_SIZE = 2) =>
                [i \in 1..Len(sent) |-> Len(sent[i])] = <<2, 2, 1>>

C6_Witness ==
    /\ pc = "returned"
    /\ NoFailures
    /\ Len(instrument_keys) = 5
    /\ BATCH_SIZE = 2
    /\ nreq = 3

\* C11: with BATCH_SIZE <= 0 and a non-empty identifier list the call issues no
\* request, does not raise, and returns an empty map.
C11_NonPositiveBatchFetchesNothing ==
    (BATCH_SIZE <= 0 /\ Len(instrument_keys) > 0) =>
        /\ nreq = 0
        /\ pc # "raised"
        /\ pc = "returned" => out = {}

\* The call raised while handling a 2xx body: an outcome that is neither a 429
\* nor a transient failure.
RaisedOnBody == pc = "raised" /\ cause.kind \in {"badjson", "list"}

\* Batches that are over: all up to the current one once the loop has left it.
BatchesOver == IF pc \in {"while", "backoff", "pause"} THEN batchNo - 1 ELSE batchNo

\* C17: whatever mix of 429s and transient failures a batch meets, it gets at
\* most MAX_RETRIES+1 requests and ends Succeeded (merged, then paused) or
\* Exhausted (abandoned).
C17_RetriesBoundedTogether ==
    /\ batchReqs <= MAX_RETRIES + 1
    /\ attempt <= MAX_RETRIES + 1
    /\ (BatchOver /\ ~RaisedOnBody) =>
          /\ pc # "raised"
          /\ pauses + Cardinality(abandoned) = batchNo

\* C18: a 429 at attempt a waits the Retry-After seconds when the header is
\* present and parseable, else BASE_DELAY * 2^(a-1); a transient failure waits
\* BASE_DELAY * 2^(a-1); no Retry-After value makes the call raise.
C18_WaitDurations ==
    /\ (pc = "backoff" /\ cause.kind = "r429") =>
          wait = (CASE cause.ra = "0" -> 0
                    [] cause.ra = "3" -> 3000
                    [] OTHER -> BASE_DELAY * (2 ^ (attempt - 1)))
    /\ (pc = "backoff" /\ cause.kind = "transient") =>
          wait = BASE_DELAY * (2 ^ (attempt - 1))
    /\ ~(pc = "raised" /\ cause.kind = "r429")

\* C19: a backoff sleep is always followed by another attempt of the batch:
\* while the fetcher sleeps one, the while condition still admits an attempt.
C19_BackoffThenAttempt ==
    pc = "backoff" => attempt <= MAX_RETRIES

\* C20: the politeness pause of POLITE_PAUSE is slept once after each batch
\* that succeeded, before the next batch is tried, and never for a batch that
\* was abandoned: at every point the pauses slept so far are as many as the
\* batches that are over and were not abandoned.
C20_PauseOncePerSuccess ==
    /\ pc \in {"for", "while", "backoff", "returned"} =>
          pauses = BatchesOver - Cardinality(abandoned)
    /\ pc = "pause" =>
          /\ wait = POLITE_PAUSE
          /\ batchNo \notin abandoned
          /\ pauses = batchNo - Cardinality(abandoned)
    /\ (pc = "while" /\ attempt = 0) => wait = 0

\* C21: with BATCH_SIZE >= 1, whatever the provider answers, every batch
\* reaches Succeeded or Exhausted and the call eventually returns.
C21_EventuallyReturns ==
    <>(/\ pc = "returned"
       /\ pauses + Cardinality(abandoned) = Len(Batches))

\* A call that returned after an abandoned batch, a successful one and another
\* abandoned one.
C20_Witness ==
    /\ pc = "returned"
    /\ abandoned = {1, 3}
    /\ pauses = 1
    /\ Len(Batches) = 3

\* ------------------------------------------------------- select_window_keys
MaxStrikes == 4         \* most strikes of a regular chain
MaxOddRows == 2         \* most rows of an irregular row list
MaxWindow == 2          \* largest window
MaxNegWindow == 2       \* most negative window of a misconfigured run

\* atm_val is None.
NoAtm == -1
\* A strike_price that float() rejects (line 292: the row is skipped).
BadStrike == -2

Abs(x) == IF x < 0 THEN -x ELSE x

\* The i-th strike of a regular chain: 100, 105, 110, ...
StrikeAt(i) == 95 + 5 * i

\* Trading symbols, and the side the code reads from one (lines 237, 296):
\* "ce" if " ce" in ts or ts ends with "ce" or "call" in ts, else "pe" likewise.
Symbols == {"NIFTY 25OCT CE", "NIFTY 25OCT PE", "NIFTY 25OCT FUT"}
SideOf(ts) ==
    CASE ts \in {"NIFTY 25OCT CE", "TCS 28OCT CE"} -> "ce"
      [] ts \in {"NIFTY 25OCT PE", "TCS 28OCT PE", "NIFTY 110 PE"} -> "pe"
      [] OTHER -> "none"

Row(strike, ts, ik) == [strike_price |-> strike, tradingsymbol |-> ts, instrument_key |-> ik]

\* float(r.get("strike_price") or r.get("strike") or 0): a missing strike is 0.
RowStrike(r) == r.strike_price

\* The key resolve_option_instruments_for sorts by (lines 154-159): 0 on error.
SortKey(r) == IF r.strike_price = BadStrike THEN 0 ELSE r.strike_price

\* Ascending list of a finite set of integers: sorted(strike_map.keys()).
RECURSIVE SortedSeq(_)
SortedSeq(S) ==
    IF S = {} THEN <<>>
    ELSE LET m == CHOOSE x \in S : \A y \in S : x <= y
         IN  <<m>> \o SortedSeq(S \ {m})

\* Lines 289-302: the rows that pass float(), grouped by strike; per side the
\* identifier of the last such row (None before any).
Parsed(rows) == SelectSeq(rows, LAMBDA r : r.strike_price # BadStrike)

RECURSIVE LastWriter(_, _, _)
LastWriter(rows, strike, side) ==
    IF Len(rows) = 0 THEN NoKey
    ELSE LET r == rows[Len(rows)]
         IN  IF RowStrike(r) = strike /\ SideOf(r.tradingsymbol) = side
             THEN r.instrument_key
             ELSE LastWriter(SubSeq(rows, 1, Len(rows) - 1), strike, side)

StrikeSet(rows) == {RowStrike(Parsed(rows)[i]) : i \in 1..Len(Parsed(rows))}

strike_map(rows) ==
    [s \in StrikeSet(rows) |->
        [ce |-> LastWriter(Parsed(rows), s, "ce"), pe |-> LastWriter(Parsed(rows), s, "pe")]]

\* min(range(n), key=f) scans upwards and keeps the first smallest: best moves
\* only on a strictly smaller key.  0-based; ss is 1-based.
RECURSIVE ArgMinScanLast(_, _, _, _)
ArgMinScanLast(ss, atm, i, best) ==
    IF i >= Len(ss) THEN best
    ELSE ArgMinScanLast(ss, atm, i + 1,
            IF Abs(ss[i + 1] - atm) <= Abs(ss[best + 1] - atm) THEN i ELSE best)

RECURSIVE ArgMinScan(_, _, _, _)
ArgMinScan(ss, atm, i, best) ==
    IF i >= Len(ss) THEN best
    ELSE ArgMinScan(ss, atm, i + 1,
            IF Abs(ss[i + 1] - atm) < Abs(ss[best + 1] - atm) THEN i ELSE best)

\* A center that ignores atm.
CenterIdxMiddle(ss, atm) == Len(ss) \div 2
\* A center that keeps the last of several nearest strikes.
CenterIdxLast(ss, atm) ==
    IF atm = NoAtm THEN Len(ss) \div 2 ELSE ArgMinScanLast(ss, atm, 1, 0)

\* Lines 306-309.
CenterIdx(ss, atm) ==
    IF atm = NoAtm THEN Len(ss) \div 2 ELSE ArgMinScan(ss, atm, 1, 0)

\* seq[start:stop] of Python, 0-based, a negative index counting from the end.
PySlice(seq, start, stop) ==
    LET n  == Len(seq)
        lo == IF start < 0 THEN Max(start + n, 0) ELSE Min(start, n)
        hi == IF stop < 0 THEN Max(stop + n, 0) ELSE Min(stop, n)
    IN  SubSeq(seq, lo + 1, hi)

\* A slice that forgets the lower clamp: start = center - window.
WindowSliceNoClamp(ss, c, w) == PySlice(ss, c - w, Min(Len(ss) - 1, c + w) + 1)

\* Lines 310-313: strikes_sorted[start:end+1].
WindowSlice(ss, c, w) ==
    PySlice(ss, Max(0, c - w), Min(Len(ss) - 1, c + w) + 1)

\* Lines 315-318: the call id, then the put id, each if truthy.
BucketIdsPutFirst(rec) ==
    (IF rec.pe # NoKey THEN <<rec.pe>> ELSE <<>>) \o
    (IF rec.ce # NoKey THEN <<rec.ce>> ELSE <<>>)

BucketIds(rec) ==
    (IF rec.ce # NoKey THEN <<rec.ce>> ELSE <<>>) \o
    (IF rec.pe # NoKey THEN <<rec.pe>> ELSE <<>>)

RECURSIVE IdsOfStrikes(_, _)
IdsOfStrikes(sm, strikes) ==
    IF Len(strikes) = 0 THEN <<>>
    ELSE BucketIds(sm[Head(strikes)]) \o IdsOfStrikes(sm, Tail(strikes))

\* select_window_keys(option_rows, atm_val, window), lines 287-319.
select_window_keys(rows, atm, w) ==
    LET ss == SortedSeq(StrikeSet(rows))
    IN  IF Len(ss) = 0 THEN <<>>
        ELSE IdsOfStrikes(strike_map(rows), WindowSlice(ss, CenterIdx(ss, atm), w))

\* ---- the rows a call can be given
\* A regular chain: each of the first MaxStrikes strikes is absent, or has a
\* call row, a put row, both, or a row whose symbol names no side; every row
\* has its own identifier.
LegChoices == {"absent", "ce", "pe", "both", "noside"}
CeId(i) == 10 * StrikeAt(i) + 1
PeId(i) == 10 * StrikeAt(i) + 2
FutId(i) == 10 * StrikeAt(i) + 3
LegRows(i, c) ==
    CASE c = "ce"     -> <<Row(StrikeAt(i), "NIFTY 25OCT CE", CeId(i))>>
      [] c = "pe"     -> <<Row(StrikeAt(i), "NIFTY 25OCT PE", PeId(i))>>
      [] c = "both"   -> <<Row(StrikeAt(i), "NIFTY 25OCT CE", CeId(i)),
                           Row(StrikeAt(i), "NIFTY 25OCT PE", PeId(i))>>
      [] c = "noside" -> <<Row(StrikeAt(i), "NIFTY 25OCT FUT", FutId(i))>>
      [] OTHER        -> <<>>

RECURSIVE ChainOf(_, _)
ChainOf(f, i) == IF i = 0 THEN <<>> ELSE ChainOf(f, i - 1) \o LegRows(i, f[i])

ChainRows == {ChainOf(f, MaxStrikes) : f \in [1..MaxStrikes -> LegChoices]}

\* Irregular rows: missing (0) or unusable strikes, missing identifiers, two
\* rows for one strike and side, one identifier on two rows.  Sorted by strike,
\* as resolve_option_instruments_for returns them.
OddRow ==
    {Row(s, ts, ik) : s \in {0, BadStrike, StrikeAt(1), StrikeAt(2)},
                      ts \in Symbols, ik \in {NoKey, CeId(1)}}
OddRows ==
    {rs \in UNION {[1..n -> OddRow] : n \in 0..MaxOddRows} :
        \A i \in 1..(Len(rs) - 1) : SortKey(rs[i]) <= SortKey(rs[i + 1])}

RowLists == ChainRows \cup OddRows

AtmValues == {NoAtm, 104} \cup {StrikeAt(i) : i \in 0..(MaxStrikes + 1)}

\* The fetcher takes no part in a selection.
FetcherIdle ==
    /\ BATCH_SIZE = 1
    /\ MAX_RETRIES = 0
    /\ instrument_keys = <<>>
    /\ pc = "idle"
    /\ batchNo = 0
    /\ attempt = 0
    /\ out = {}
    /\ wait = 0
    /\ cause = NoCause
    /\ nreq = 0
    /\ batchReqs = 0
    /\ sent = <<>>
    /\ abandoned = {}
    /\ only429 = TRUE
    /\ merged = {}
    /\ pauses = 0

SelectCalled(windows) ==
    /\ option_rows \in RowLists
    /\ atm_val \in AtmValues
    /\ window \in windows
    /\ spc = "ready"
    /\ strikes_sorted = <<>>
    /\ center_idx = 0
    /\ chosen = <<>>

\* The whole call, lines 287-319.
Select ==
    /\ spc = "ready"
    /\ spc' = "done"
    /\ strikes_sorted' = SortedSeq(StrikeSet(option_rows))
    /\ center_idx' = IF StrikeSet(option_rows) = {} THEN 0
                     ELSE CenterIdx(SortedSeq(StrikeSet(option_rows)), atm_val)
    /\ chosen' = select_window_keys(option_rows, atm_val, window)
    /\ UNCHANGED <<option_rows, atm_val, window>>
    /\ UNCHANGED <<fvars, bvars, pvars>>

SelectInit == FetcherIdle /\ BuilderIdle /\ PollerIdle /\ SelectCalled(0..MaxWindow)
SelectNext == Select
\* Calls with the window the configuration is documented to hold (>= 0).
SelectSpec == SelectInit /\ [][SelectNext]_vars

MisconfiguredInit == FetcherIdle /\ BuilderIdle /\ PollerIdle /\
    SelectCalled((0 - MaxNegWindow)..(0 - 1))
\* Calls with a negative window.
MisconfiguredSpec == MisconfiguredInit /\ [][SelectNext]_vars

\* ------------------------------------------------------ selector properties
NoDuplicates(seq) == \A i, j \in 1..Len(seq) : i # j => seq[i] # seq[j]

\* a is b with some elements left out (order kept).
RECURSIVE IsSubseq(_, _)
IsSubseq(a, b) ==
    IF Len(a) = 0 THEN TRUE
    ELSE IF Len(b) = 0 THEN FALSE
    ELSE IF Head(a) = Head(b) THEN IsSubseq(Tail(a), Tail(b))
    ELSE IsSubseq(a, Tail(b))

RowIds(rows) == {rows[i].instrument_key : i \in 1..Len(rows)} \ {NoKey}

\* The identifiers of the bucket of strike s: call first, then put.
CallThenPut(rows, s) ==
    SelectSeq(<<strike_map(rows)[s].ce, strike_map(rows)[s].pe>>, LAMBDA k : k # NoKey)

\* The identifiers of the strikes at 0-based indices lo..hi of ss, ascending.
RECURSIVE RangeIds(_, _, _, _)
RangeIds(rows, ss, lo, hi) ==
    IF lo > hi THEN <<>>
    ELSE CallThenPut(rows, ss[lo + 1]) \o RangeIds(rows, ss, lo + 1, hi)

\* Every identifier of every strike, ascending by strike, call before put.
AllIdsInOrder(rows) ==
    RangeIds(rows, SortedSeq(StrikeSet(rows)), 0, Cardinality(StrikeSet(rows)) - 1)

\* No identifier is carried by rows of two different (strike, side) pairs.
OneBucketPerId(rows) ==
    \A i, j \in 1..Len(rows) :
        (rows[i].instrument_key = rows[j].instrument_key) =>
            /\ RowStrike(rows[i]) = RowStrike(rows[j])
            /\ SideOf(rows[i].tradingsymbol) = SideOf(rows[j].tradingsymbol)

Dist(i) == Abs(strikes_sorted[i + 1] - atm_val)

\* The rows of the documented example: strikes 100, 105, 110, call and put each.
ExampleRows ==
    <<Row(100, "NIFTY 25OCT CE", 1001), Row(100, "NIFTY 25OCT PE", 1002),
      Row(105, "NIFTY 25OCT CE", 1051), Row(105, "NIFTY 25OCT PE", 1052),
      Row(110, "NIFTY 25OCT CE", 1101), Row(110, "NIFTY 25OCT PE", 1102)>>

\* C7 as stated: for any rows, atm and window the returned list holds only
\* identifiers of the rows, holds none twice, and is ordered by ascending
\* strike with the call id before the put id of a strike.
C7_SubsetDedupedOrdered ==
    spc = "done" =>
        /\ KeysOf(chosen) \subseteq RowIds(option_rows)
        /\ NoDuplicates(chosen)
        /\ IsSubseq(chosen, AllIdsInOrder(option_rows))

\* C7 amended: the returned list holds only identifiers of the rows and is
\* ordered by ascending strike, call before put; it holds no identifier twice
\* when no identifier is carried by rows of two different (strike, side) pairs.
C7_SubsetOrderedDedupedPerBucket ==
    spc = "done" =>
        /\ KeysOf(chosen) \subseteq RowIds(option_rows)
        /\ IsSubseq(chosen, AllIdsInOrder(option_rows))
        /\ OneBucketPerId(option_rows) => NoDuplicates(chosen)

C7_Witness ==
    /\ spc = "done"
    /\ OneBucketPerId(option_rows)
    /\ Len(chosen) >= 4
    /\ Len(chosen) < Len(AllIdsInOrder(option_rows))

\* C8: with an atm the center is the index of a strike nearest to atm, the
\* lowest such index on a tie; without one it is len(strikes) div 2.
C8_Center ==
    (spc = "done" /\ Len(strikes_sorted) > 0) =>
        IF atm_val = NoAtm
        THEN center_idx = Len(strikes_sorted) \div 2
        ELSE /\ center_idx \in 0..(Len(strikes_sorted) - 1)
             /\ \A i \in 0..(Len(strikes_sorted) - 1) : Dist(center_idx) <= Dist(i)
             /\ \A i \in 0..(center_idx - 1) : Dist(i) > Dist(center_idx)

\* A tie: another strike is as near to atm as the center.
C8_Witness ==
    /\ spc = "done"
    /\ atm_val # NoAtm
    /\ \E i \in 0..(Len(strikes_sorted) - 1) :
          i # center_idx /\ Dist(i) = Dist(center_idx)

\* C9: the result is the identifiers of exactly the strikes at indices
\* max(0, center-window) .. min(len-1, center+window) of the ascending strike
\* list; on strikes 100, 105, 110 with atm 104, window 1 gives all three
\* strikes and window 0 only strike 105.
C9_WindowRange ==
    spc = "done" =>
        /\ Len(strikes_sorted) > 0 =>
              chosen = RangeIds(option_rows, strikes_sorted,
                                Max(0, center_idx - window),
                                Min(Len(strikes_sorted) - 1, center_idx + window))
        /\ Len(strikes_sorted) = 0 => chosen = <<>>
        /\ (option_rows = ExampleRows /\ atm_val = 104 /\ window = 1) =>
              chosen = <<1001, 1002, 1051, 1052, 1101, 1102>>
        /\ (option_rows = ExampleRows /\ atm_val = 104 /\ window = 0) =>
              chosen = <<1051, 1052>>

\* The example, with a window clamped at both ends.
C9_Witness ==
    /\ spc = "done"
    /\ option_rows = ExampleRows
    /\ atm_val = 104
    /\ window = 2
    /\ center_idx - window < 0
    /\ center_idx + window > Len(strikes_sorted) - 1
    /\ Len(chosen) = 6

\* C10: on non-empty rows a window <= 0 selects nothing.
C10_NonPositiveWindowSelectsNothing ==
    (spc = "done" /\ Len(option_rows) > 0 /\ window <= 0) => chosen = <<>>

\* ---------------------------------- build_option_chain_from_instruments
MaxBuildRows == 2       \* most rows handed to the chain builder
MaxQuoteVal == 2        \* largest value of a quote field

\* A quote field that is absent from the payload, or null (.get gives None).
NoVal == -1
QuoteVals == {NoVal} \cup (0..MaxQuoteVal)

\* Python truthiness of a field value: None and 0 are falsy.
Truthy(v) == v # NoVal /\ v # 0

\* a or b or c: the first truthy operand, else the last operand.
Or3(a, b, c) == IF Truthy(a) THEN a ELSE IF Truthy(b) THEN b ELSE c

\* A quote payload: l, o, v give the values of the three aliases of the last
\* price, the open interest and the implied volatility, in the order the
\* builder reads them (lines 233-235).
Payload(l, o, v) ==
    [last_traded_price |-> l[1], ltp |-> l[2], lastPrice |-> l[3],
     open_interest |-> o[1], oi |-> o[2], openInterest |-> o[3],
     iv |-> v[1], implied_volatility |-> v[2], IV |-> v[3]]

Triples == [1..3 -> QuoteVals]
NoTriple == [i \in 1..3 |-> NoVal]
\* {}: a payload with no field.
EmptyPayload == Payload(NoTriple, NoTriple, NoTriple)

\* Payloads carrying aliases of one logical field.
Payloads ==
    {Payload(t, NoTriple, NoTriple) : t \in Triples}
    \cup {Payload(NoTriple, t, NoTriple) : t \in Triples}
    \cup {Payload(NoTriple, NoTriple, t) : t \in Triples}

\* A payload with every logical field set, under its first alias.
FullPayload == Payload(<<1, NoVal, NoVal>>, <<2, NoVal, NoVal>>, <<1, NoVal, NoVal>>)

\* A lookup that defaults a missing quote to zeros.
QuoteOfZeroDefault(qm, ik) ==
    IF ik \in DOMAIN qm THEN qm[ik]
    ELSE Payload(<<0, 0, 0>>, <<0, 0, 0>>, <<0, 0, 0>>)

\* Line 232: quotes_map.get(ik) or {}.
QuoteOf(qm, ik) == IF ik \in DOMAIN qm THEN qm[ik] ELSE EmptyPayload

\* Symbols of the rows given to the builder; one carries its strike as a token.
BuildSymbols == Symbols \cup {"NIFTY 110 PE"}

\* Lines 221-227: the last token of the symbol that reads as a number, if any.
SymbolStrike(ts) == IF ts = "NIFTY 110 PE" THEN 110 ELSE BadStrike

\* Lines 218-230: strike_price if truthy, else the strike read from the symbol;
\* BadStrike when float() raises (an unusable value, or None) and the row is
\* skipped.
BuildStrike(r) ==
    IF r.strike_price = BadStrike THEN BadStrike
    ELSE IF r.strike_price # 0 THEN r.strike_price
    ELSE SymbolStrike(r.tradingsymbol)

BuildParsed(rows) == SelectSeq(rows, LAMBDA r : BuildStrike(r) # BadStrike)
BuildStrikeSet(rows) ==
    {BuildStrike(BuildParsed(rows)[i]) : i \in 1..Len(BuildParsed(rows))}

\* Line 239: the leg record of a row.
LegInfo(r, qm) ==
    LET q == QuoteOf(qm, r.instrument_key)
    IN  [instrument_key |-> r.instrument_key,
         trading_symbol |-> r.tradingsymbol,
         ltp |-> Or3(q.last_traded_price, q.ltp, q.lastPrice),
         oi  |-> Or3(q.open_interest, q.oi, q.openInterest),
         iv  |-> Or3(q.iv, q.implied_volatility, q.IV)]

\* Lines 238-243: the leg of a strike and side is written by every row of that
\* strike and side, the last one staying; <<>> is None.
RECURSIVE LastLeg(_, _, _, _)
LastLeg(rows, qm, strike, side) ==
    IF Len(rows) = 0 THEN <<>>
    ELSE LET r == rows[Len(rows)]
         IN  IF BuildStrike(r) = strike /\ SideOf(r.tradingsymbol) = side
             THEN <<LegInfo(r, qm)>>
             ELSE LastLeg(SubSeq(rows, 1, Len(rows) - 1), qm, strike, side)

\* The keys of the strikes dict in insertion order (first row of each strike).
RECURSIVE BuildKeysInsertionOrder(_)
BuildKeysInsertionOrder(rows) ==
    IF Len(BuildParsed(rows)) = 0 THEN <<>>
    ELSE LET ps   == BuildParsed(rows)
             init == BuildKeysInsertionOrder(SubSeq(ps, 1, Len(ps) - 1))
             s    == BuildStrike(ps[Len(ps)])
         IN  IF \E i \in 1..Len(init) : init[i] = s THEN init ELSE Append(init, s)

\* Line 244: sorted(strikes.keys()).
BuildKeys(rows) == SortedSeq(BuildStrikeSet(rows))

\* build_option_chain_from_instruments(instrument_rows, quotes_map), lines 214-244.
build_option_chain_from_instruments(rows, qm) ==
    LET ks == BuildKeys(rows)
    IN  [i \in 1..Len(ks) |->
            [strike |-> ks[i],
             ce |-> LastLeg(BuildParsed(rows), qm, ks[i], "ce"),
             pe |-> LastLeg(BuildParsed(rows), qm, ks[i], "pe")]]

\* ------------------------------------------------------ short_text_for_side
\* The digits of a natural number: str(n).
Digit(d) ==
    CASE d = 0 -> "0" [] d = 1 -> "1" [] d = 2 -> "2" [] d = 3 -> "3" [] d = 4 -> "4"
      [] d = 5 -> "5" [] d = 6 -> "6" [] d = 7 -> "7" [] d = 8 -> "8" [] OTHER -> "9"
RECURSIVE Digits(_)
Digits(n) == IF n < 10 THEN Digit(n) ELSE Digits(n \div 10) \o Digit(n % 10)

\* Lines 252-253 and 256-257: f"{float(x):,.2f}" of a whole number below 1000.
FmtFloat2(v) == IF v = NoVal THEN "NA" ELSE Digits(v) \o ".00"
\* Lines 254-255: f"{int(float(oi)):,}" of a whole number below 1000.
FmtInt(v) == IF v = NoVal THEN "NA" ELSE Digits(v)

\* short_text_for_side(side), lines 246-258; side is <<>> (None) or <<leg>>.
short_text_for_side(side) ==
    IF Len(side) = 0 THEN "NA"
    ELSE FmtFloat2(side[1].ltp) \o " / " \o FmtInt(side[1].oi) \o " / "
            \o FmtFloat2(side[1].iv)

\* ---- the calls of the builder
\* Rows with missing (0) or unusable strikes, strikes carried by the symbol,
\* symbols that name no side, missing and repeated identifiers; sorted by
\* strike, as the rows of resolve_option_instruments_for are.
BuildRow ==
    {Row(s, ts, ik) : s \in {0, BadStrike, StrikeAt(1), StrikeAt(3)},
                      ts \in BuildSymbols, ik \in {NoKey, CeId(1), PeId(1)}}
BuildRowLists ==
    {rs \in UNION {[1..n -> BuildRow] : n \in 0..MaxBuildRows} :
        \A i \in 1..(Len(rs) - 1) : SortKey(rs[i]) <= SortKey(rs[i + 1])}

QuoteIds == {CeId(1), PeId(1)}
\* Quote maps that hold a full payload for some of the identifiers.
BuildQuoteMaps == UNION {[D -> {FullPayload}] : D \in SUBSET QuoteIds}

\* A call row, with or without the put row of its strike, and quote maps that
\* hold any payload for the call.
AliasRowLists == {LegRows(1, "ce"), LegRows(1, "both")}
AliasQuoteMaps ==
    {(CeId(1) :> p) : p \in Payloads}
    \cup {(CeId(1) :> p) @@ (PeId(1) :> FullPayload) : p \in Payloads}

BuildCalled(rowlists, quotemaps) ==
    /\ instrument_rows \in rowlists
    /\ quotes \in quotemaps
    /\ bpc = "ready"
    /\ strikes_list = <<>>
    /\ texts = <<>>

\* The whole call, lines 214-244.
Build ==
    /\ bpc = "ready"
    /\ bpc' = "built"
    /\ strikes_list' = build_option_chain_from_instruments(instrument_rows, quotes)
    /\ UNCHANGED <<instrument_rows, quotes, texts>>
    /\ UNCHANGED <<fvars, svars, pvars>>

\* Lines 279-280: the summary renders the two legs of an entry.
Render ==
    /\ bpc = "built"
    /\ bpc' = "rendered"
    /\ texts' = [i \in 1..Len(strikes_list) |->
                    [ce |-> short_text_for_side(strikes_list[i].ce),
                     pe |-> short_text_for_side(strikes_list[i].pe)]]
    /\ UNCHANGED <<instrument_rows, quotes, strikes_list>>
    /\ UNCHANGED <<fvars, svars, pvars>>

BuildNext == Build \/ Render

BuildInit ==
    FetcherIdle /\ SelectorIdle /\ PollerIdle /\ BuildCalled(BuildRowLists, BuildQuoteMaps)
\* Calls on irregular rows.
BuildSpec == BuildInit /\ [][BuildNext]_vars

AliasInit ==
    FetcherIdle /\ SelectorIdle /\ PollerIdle /\ BuildCalled(AliasRowLists, AliasQuoteMaps)
\* Calls on payloads that use any aliases of a quote field.
AliasSpec == AliasInit /\ [][BuildNext]_vars

\* ------------------------------------------------------- builder properties
Built == bpc \in {"built", "rendered"}

\* C12: the entries are in strictly ascending order of strike, and a call row
\* and a put row of one numeric strike fill the two legs of a single entry.
C12_SortedOneEntryPerStrike ==
    Built =>
        /\ \A i, j \in 1..Len(strikes_list) :
              i < j => strikes_list[i].strike < strikes_list[j].strike
        /\ \A a, b \in 1..Len(instrument_rows) :
              LET ra == instrument_rows[a]
                  rb == instrument_rows[b]
              IN  (/\ BuildStrike(ra) # BadStrike
                   /\ BuildStrike(ra) = BuildStrike(rb)
                   /\ SideOf(ra.tradingsymbol) = "ce"
                   /\ SideOf(rb.tradingsymbol) = "pe") =>
                      \E i \in 1..Len(strikes_list) :
                          /\ strikes_list[i].strike = BuildStrike(ra)
                          /\ Len(strikes_list[i].ce) = 1
                          /\ Len(strikes_list[i].pe) = 1

\* A put row whose strike comes from its symbol sorts before the call row of a
\* lower strike, and a call row meets it at strike 110.
C12_Witness ==
    /\ Built
    /\ Len(strikes_list) = 1
    /\ strikes_list[1].strike = 110
    /\ Len(strikes_list[1].ce) = 1
    /\ Len(strikes_list[1].pe) = 1
    /\ instrument_rows[1].strike_price = 0

\* C13: every entry has a call leg or a put leg.
C13_NoEmptyEntry ==
    Built =>
        \A i \in 1..Len(strikes_list) :
            Len(strikes_list[i].ce) = 1 \/ Len(strikes_list[i].pe) = 1

\* The first alias (in reading order) that is present and non-null, NoVal if
\* there is none.
FirstPresent(a, b, c) == IF a # NoVal THEN a ELSE IF b # NoVal THEN b ELSE c

Legs == UNION {{strikes_list[i].ce, strikes_list[i].pe} : i \in 1..Len(strikes_list)}

\* C14: each field of a quoted leg is the first present, non-null alias of the
\* payload, a present 0 included; so a last price carried under one alias only
\* comes out the same whichever alias it is.
C14_FirstPresentAlias ==
    Built =>
        \A leg \in Legs :
            (Len(leg) = 1 /\ leg[1].instrument_key \in DOMAIN quotes) =>
                LET q == quotes[leg[1].instrument_key]
                IN  /\ leg[1].ltp = FirstPresent(q.last_traded_price, q.ltp, q.lastPrice)
                    /\ leg[1].oi = FirstPresent(q.open_interest, q.oi, q.openInterest)
                    /\ leg[1].iv = FirstPresent(q.iv, q.implied_volatility, q.IV)

\* C15: a leg whose identifier has no entry in the quote map has last price,
\* open interest and implied volatility all unknown, and each is rendered "NA".
C15_AbsentQuoteIsUnknown ==
    /\ Built =>
          \A leg \in Legs :
              (Len(leg) = 1 /\ leg[1].instrument_key \notin DOMAIN quotes) =>
                  leg[1].ltp = NoVal /\ leg[1].oi = NoVal /\ leg[1].iv = NoVal
    /\ bpc = "rendered" =>
          \A i \in 1..Len(strikes_list) :
              /\ (/\ Len(strikes_list[i].ce) = 1
                  /\ strikes_list[i].ce[1].instrument_key \notin DOMAIN quotes) =>
                      texts[i].ce = "NA / NA / NA"
              /\ (/\ Len(strikes_list[i].pe) = 1
                  /\ strikes_list[i].pe[1].instrument_key \notin DOMAIN quotes) =>
                      texts[i].pe = "NA / NA / NA"

\* A call with a quote beside a put without one.
C15_Witness ==
    /\ bpc = "rendered"
    /\ Len(strikes_list) = 1
    /\ Len(strikes_list[1].ce) = 1
    /\ Len(strikes_list[1].pe) = 1
    /\ strikes_list[1].ce[1].instrument_key \in DOMAIN quotes
    /\ strikes_list[1].pe[1].instrument_key \notin DOMAIN quotes
    /\ strikes_list[1].pe[1].instrument_key # NoKey
    /\ texts[1].ce = "1.00 / 2 / 1.00"
    /\ texts[1].pe = "NA / NA / NA"

\* ------------------------------------------------------ poll_once_and_send
MaxPollStrikes == 2     \* most strikes of the Nifty chain of a polled instrument file
MaxQuota == 3           \* largest configured MAX_KEYS_PER_POLL
MaxInterval == 2        \* largest configured POLL_INTERVAL, in seconds
MaxStart == 2           \* latest clock value of the first cycle
MaxCycles == 2          \* cycles followed
\* Seconds a cycle itself takes, on top of the sleep between two cycles.
Drifts == {0, 1}

\* Option rows of the two underlyings: regular chains, call and put per strike.
RECURSIVE NiftyChain(_)
NiftyChain(n) == IF n = 0 THEN <<>> ELSE NiftyChain(n - 1) \o LegRows(n, "both")

\* Irregular Nifty rows: one identifier on the rows of two strikes, and a row
\* whose strike is given by its symbol only.
OddPollRows ==
    {<<Row(StrikeAt(1), "NIFTY 25OCT CE", CeId(1)), Row(StrikeAt(2), "NIFTY 25OCT CE", CeId(1))>>,
     <<Row(0, "NIFTY 110 PE", PeId(3))>>}

TcsChain(n) ==
    IF n = 0 THEN <<>>
    ELSE <<Row(StrikeAt(1), "TCS 28OCT CE", 5000 + CeId(1)),
           Row(StrikeAt(1), "TCS 28OCT PE", 5000 + PeId(1))>>

\* find_underlying_key (lines 333-341): the key of the first instrument that
\* mentions the term, which may be an option row itself, or nothing.
NiftyUnderKeys == {NoKey, 1, CeId(1)}
TcsUnderKeys == {NoKey, 2}

\* Lines 358-362: drop falsy keys and repeats, keep the first occurrences.
RECURSIVE Dedupe(_, _)
Dedupe(ks, seen) ==
    IF Len(ks) = 0 THEN <<>>
    ELSE IF Head(ks) # NoKey /\ Head(ks) \notin seen
         THEN <<Head(ks)>> \o Dedupe(Tail(ks), seen \cup {Head(ks)})
         ELSE Dedupe(Tail(ks), seen)

\* Lines 347-362.
Candidates ==
    Dedupe((IF nifty_under_key # NoKey THEN <<nifty_under_key>> ELSE <<>>)
           \o (IF tcs_under_key # NoKey /\ tcs_under_key # nifty_under_key
               THEN <<tcs_under_key>> ELSE <<>>)
           \o select_window_keys(nifty_rows, NoAtm, STRIKE_WINDOW)
           \o select_window_keys(tcs_rows, NoAtm, STRIKE_WINDOW),
           {})

\* A slice as long as the whole candidate list.
SliceSizeAll(total) == total
\* Line 371.
SliceSize(total) == Min(MAX_KEYS_PER_POLL, total)

\* Line 373: math.ceil(total / slice_size).
Pages(total) == (total + SliceSize(total) - 1) \div SliceSize(total)

\* An offset taken from the clock in seconds, not in polls.
OffsetRawClock(t, pages) == t % pages
\* Lines 372-374.
Offset(t, pages) == (t \div POLL_INTERVAL) % pages

\* Lines 375-377: cand[start:end].
KeysThisPoll(c, t) ==
    LET start == Offset(t, Pages(Len(c))) * SliceSize(Len(c))
        end   == Min(start + SliceSize(Len(c)), Len(c))
    IN  SubSeq(c, start + 1, end)

\* Line 399: [k for k in keys if k in quotes_map].
Fetched(ks, qm) == SelectSeq(ks, LAMBDA k : k \in qm)

\* The fetched map as the builder reads it: every fetched key has a payload.
QuotesOf(qm) == [k \in qm |-> FullPayload]

\* A chain of every row, whatever keys were selected.
PollChainAllRows(rows, ks, qm) ==
    build_option_chain_from_instruments(rows, QuotesOf(qm))

\* Lines 404-405: the chain of the rows whose instrument_key is among the keys.
PollChain(rows, ks, qm) ==
    build_option_chain_from_instruments(
        SelectSeq(rows, LAMBDA r : r.instrument_key \in KeysOf(ks)), QuotesOf(qm))

\* Lines 384-391: float() of the underlying's last price, when it was fetched
\* and carries one.
PollAtms(under, qm, prices) ==
    IF under # NoKey /\ under \in qm THEN {NoAtm} \cup prices ELSE {NoAtm}

PollInit ==
    /\ FetcherIdle
    /\ SelectorIdle
    /\ BuilderIdle
    /\ MAX_KEYS_PER_POLL \in 1..MaxQuota
    /\ POLL_INTERVAL \in 1..MaxInterval
    /\ STRIKE_WINDOW \in 0..1
    /\ nifty_rows \in {NiftyChain(n) : n \in 0..MaxPollStrikes} \cup OddPollRows
    /\ tcs_rows \in {TcsChain(n) : n \in 0..1}
    /\ nifty_under_key \in NiftyUnderKeys
    /\ tcs_under_key \in TcsUnderKeys
    /\ now \in 0..MaxStart
    /\ ppc = "start"
    /\ CycleBlank
    /\ cycles = 0
    /\ slices = <<>>
    /\ spaced = TRUE

\* Lines 323-378: candidates and the slice of this cycle; with no candidate
\* the fetcher is not called (line 368).
PollSlice ==
    /\ ppc = "start"
    /\ cand' = Candidates
    /\ keys_this_poll' = IF Len(Candidates) = 0 THEN <<>> ELSE KeysThisPoll(Candidates, now)
    /\ ppc' = IF Len(Candidates) = 0 THEN "fetched" ELSE "fetch"
    /\ UNCHANGED <<quotes_map, nifty_atm, tcs_atm, nifty_keys, tcs_keys, nifty_strikes,
                   tcs_strikes, fetchCalls, fetchArgs, cfgvars, now, cycles, slices,
                   spaced>>
    /\ UNCHANGED <<fvars, svars, bvars>>

\* Line 379: the one call of the fetcher.  It returns quotes for some of the
\* keys, or raises (the exception ends the cycle in main's except clause).
PollFetch ==
    /\ ppc = "fetch"
    /\ fetchCalls' = fetchCalls + 1
    /\ fetchArgs' = keys_this_poll
    /\ slices' = Append(slices, keys_this_poll)
    /\ \/ /\ quotes_map' \in SUBSET KeysOf(keys_this_poll)
          /\ ppc' = "fetched"
       \/ /\ quotes_map' = {}
          /\ ppc' = "failed"
    /\ UNCHANGED <<cand, keys_this_poll, nifty_atm, tcs_atm, nifty_keys, tcs_keys,
                   nifty_strikes, tcs_strikes, cfgvars, now, cycles, spaced>>
    /\ UNCHANGED <<fvars, svars, bvars>>

\* Lines 381-428: ATM estimates, the refined selection cut down to the keys
\* already fetched, the chains and the summaries.
PollRefine ==
    /\ ppc = "fetched"
    /\ \E na \in PollAtms(nifty_under_key, quotes_map, {104}),
          ta \in PollAtms(tcs_under_key, quotes_map, {100}) :
          /\ nifty_atm' = na
          /\ tcs_atm' = ta
          /\ nifty_keys' = Fetched(select_window_keys(nifty_rows, na, STRIKE_WINDOW), quotes_map)
          /\ tcs_keys' = Fetched(select_window_keys(tcs_rows, ta, STRIKE_WINDOW), quotes_map)
          /\ nifty_strikes' = PollChain(nifty_rows,
                Fetched(select_window_keys(nifty_rows, na, STRIKE_WINDOW), quotes_map),
                quotes_map)
          /\ tcs_strikes' = PollChain(tcs_rows,
                Fetched(select_window_keys(tcs_rows, ta, STRIKE_WINDOW), quotes_map),
                quotes_map)
    /\ ppc' = "sent"
    /\ UNCHANGED <<cand, keys_this_poll, quotes_map, fetchCalls, fetchArgs,
                   cfgvars, now, cycles, slices, spaced>>
    /\ UNCHANGED <<fvars, svars, bvars>>

\* Lines 435-440: main's loop sleeps POLL_INTERVAL and polls again; the next
\* clock reading is later by the sleep and by what the cycle itself took.
Sleep ==
    /\ ppc \in {"sent", "failed"}
    /\ cycles < MaxCycles
    /\ \E d \in Drifts :
          /\ now' = now + POLL_INTERVAL + d
          /\ spaced' = (spaced /\ d = 0)
    /\ cycles' = cycles + 1
    /\ ppc' = "start"
    /\ cand' = <<>>
    /\ keys_this_poll' = <<>>
    /\ quotes_map' = {}
    /\ nifty_atm' = 0
    /\ tcs_atm' = 0
    /\ nifty_keys' = <<>>
    /\ tcs_keys' = <<>>
    /\ nifty_strikes' = <<>>
    /\ tcs_strikes' = <<>>
    /\ fetchCalls' = 0
    /\ fetchArgs' = <<>>
    /\ UNCHANGED <<cfgvars, slices>>
    /\ UNCHANGED <<fvars, svars, bvars>>

PollNext ==
    \/ PollSlice
    \/ PollFetch
    \/ PollRefine
    \/ Sleep

PollSpec == PollInit /\ [][PollNext]_vars

\* ------------------------------------------------------- poller properties
\* ceil(total / min(quota, total)); no page without a candidate.
TotalPages ==
    LET total == Len(Candidates)
        size  == IF MAX_KEYS_PER_POLL < total THEN MAX_KEYS_PER_POLL ELSE total
    IN  IF total = 0 THEN 0
        ELSE IF total % size = 0 THEN total \div size ELSE total \div size + 1

PairwiseDisjoint(ss) ==
    \A i, j \in 1..Len(ss) : i # j => KeysOf(ss[i]) \cap KeysOf(ss[j]) = {}

\* C4: for a fixed candidate list, cycles spaced exactly POLL_INTERVAL apart
\* fetch pairwise disjoint slices, and totalPages such cycles fetch every
\* candidate identifier exactly once.
C4_RotationCoverage ==
    (spaced /\ Len(Candidates) > 0 /\ Len(slices) <= TotalPages) =>
        /\ PairwiseDisjoint(slices)
        /\ \A i \in 1..Len(slices) : NoDuplicates(slices[i])
        /\ Len(slices) = TotalPages =>
              /\ UNION {KeysOf(slices[i]) : i \in 1..Len(slices)} = KeysOf(Candidates)
              /\ Len(Concat(slices)) = Len(Candidates)

\* A full rotation of three pages.
C4_Witness ==
    /\ spaced
    /\ TotalPages = 3
    /\ Len(slices) = 3
    /\ Len(Candidates) > MAX_KEYS_PER_POLL

\* C5: in every cycle the fetcher is invoked at most once, with at most
\* MAX_KEYS_PER_POLL identifiers; the refined selection fetches nothing more.
C5_QuotaPerCycle ==
    /\ fetchCalls <= 1
    /\ Len(fetchArgs) <= MAX_KEYS_PER_POLL
    /\ Len(keys_this_poll) <= MAX_KEYS_PER_POLL
    /\ fetchCalls = 1 => fetchArgs = keys_this_poll
    /\ \A i \in 1..Len(slices) : Len(slices[i]) <= MAX_KEYS_PER_POLL
    /\ Len(slices) <= cycles + 1

\* A cycle that ended with more candidates than the quota, a full slice
\* fetched, and a refined selection that names a key this cycle did not fetch.
C5_Witness ==
    /\ ppc = "sent"
    /\ Len(cand) > MAX_KEYS_PER_POLL
    /\ fetchCalls = 1
    /\ Len(fetchArgs) = MAX_KEYS_PER_POLL
    /\ \E k \in KeysOf(select_window_keys(nifty_rows, nifty_atm, STRIKE_WINDOW)) :
          k \notin KeysOf(fetchArgs)

\* Every strike of the chain is at an index of the selector's ascending strike
\* list within the window around the center the selector computes for atm.
InWindow(rows, atm, chain) ==
    LET ss == SortedSeq(StrikeSet(rows))
        c  == CenterIdx(ss, atm)
    IN  \A i \in 1..Len(chain) :
            \E j \in 0..(Len(ss) - 1) :
                /\ ss[j + 1] = chain[i].strike
                /\ j >= Max(0, c - STRIKE_WINDOW)
                /\ j <= Min(Len(ss) - 1, c + STRIKE_WINDOW)

\* Every row gives its strike as a usable, non-zero strike_price, and no
\* identifier is carried by rows of two strikes.
PlainRows(rows) ==
    /\ \A i \in 1..Len(rows) : rows[i].strike_price \notin {0, BadStrike}
    /\ \A i, j \in 1..Len(rows) :
          (rows[i].instrument_key # NoKey
           /\ rows[i].instrument_key = rows[j].instrument_key) =>
              rows[i].strike_price = rows[j].strike_price

\* C16 as stated: in every cycle every strike of an assembled chain lies
\* within [center - window, center + window], clamped, of the sorted distinct
\* strikes of the underlying's rows.
C16_WindowContainment ==
    ppc = "sent" =>
        /\ InWindow(nifty_rows, nifty_atm, nifty_strikes)
        /\ InWindow(tcs_rows, tcs_atm, tcs_strikes)

\* C16, amended: the containment holds for an underlying whose rows give
\* their strikes in strike_price and share no identifier between strikes.
C16_WindowContainmentPlainRows ==
    ppc = "sent" =>
        /\ PlainRows(nifty_rows) => InWindow(nifty_rows, nifty_atm, nifty_strikes)
        /\ PlainRows(tcs_rows) => InWindow(tcs_rows, tcs_atm, tcs_strikes)

\* A cycle whose window of 0 around the ATM keeps one of two strikes, both
\* legs of it fetched.
C16_Witness ==
    /\ ppc = "sent"
    /\ PlainRows(nifty_rows)
    /\ Len(SortedSeq(StrikeSet(nifty_rows))) = 2
    /\ STRIKE_WINDOW = 0
    /\ nifty_atm = 104
    /\ Len(nifty_strikes) = 1
    /\ nifty_strikes[1].strike = 105
    /\ Len(nifty_strikes[1].ce) = 1
    /\ Len(nifty_strikes[1].pe) = 1

====
